---------------------------- MODULE Spec2Model ----------------------------
(***************************************************************************)
(* The gradient optimizers of neural_nets/optimizers/optimizers.py:        *)
(* OptimizerBase (step, reset_step, copy, set_params) and the update       *)
(* methods of SGD, AdaGrad, RMSProp and Adam.                              *)
(*                                                                         *)
(* Numbers are exact rationals <<num, den>> in lowest terms, den > 0.      *)
(* Tensors are one-dimensional arrays: non-empty sequences of rationals,   *)
(* with numpy's broadcasting between a length-1 array and a longer one.    *)
(* Python objects that are shared by reference (the cache dict and the     *)
(* hyperparameters dict of an optimizer) live in a heap and are named by   *)
(* their address.                                                          *)
(***************************************************************************)
EXTENDS Integers, Sequences, FiniteSets, TLC

\* ------------------------------------------------------------------ bounds

\* update calls in one run of one optimizer
MaxUpdates == 3
\* update calls in one run of an optimizer and its copy, and in one run of a
\* caller that passes tensors of any shape
MaxCopyUpdates == 2
\* the largest value cur_step is driven to
MaxStep == 1
\* set_params calls in one run
MaxSetParams == 1
\* copy() calls in one run
MaxCopies == 1
\* pairs of concurrent update calls in one run
MaxRounds == 2
\* np.sqrt of a number with no rational root is rounded down to a multiple
\* of 1/SqrtDen (the stand-in for the rounding of a float square root)
SqrtDen == 100

\* --------------------------------------------------------------- rationals

Abs(x) == IF x < 0 THEN -x ELSE x

RECURSIVE GCD(_, _)
GCD(a, b) == IF b = 0 THEN a ELSE GCD(b, a % b)

\* the rational n/d in lowest terms with a positive denominator (d # 0)
Q(n, d) ==
    LET g == GCD(Abs(n), Abs(d))
        s == IF d < 0 THEN -1 ELSE 1
    IN  <<(s * n) \div g, (s * d) \div g>>

Zero == <<0, 1>>
One == <<1, 1>>

RAdd(a, b) == Q(a[1] * b[2] + b[1] * a[2], a[2] * b[2])
RSub(a, b) == Q(a[1] * b[2] - b[1] * a[2], a[2] * b[2])
RMul(a, b) == Q(a[1] * b[1], a[2] * b[2])
RDiv(a, b) == Q(a[1] * b[2], a[2] * b[1])
RLt(a, b) == a[1] * b[2] < b[1] * a[2]
RLe(a, b) == a[1] * b[2] <= b[1] * a[2]
RMax(a, b) == IF RLt(a, b) THEN b ELSE a

RECURSIVE RPow(_, _)
RPow(a, k) == IF k = 0 THEN One ELSE RMul(a, RPow(a, k - 1))

\* the integer square root: the largest r with r * r <= n
RECURSIVE ISqrtIn(_, _, _)
ISqrtIn(n, lo, hi) ==
    IF hi - lo <= 1 THEN lo
    ELSE LET mid == (lo + hi) \div 2
         IN  IF mid * mid <= n THEN ISqrtIn(n, mid, hi) ELSE ISqrtIn(n, lo, mid)

\* lo * lo <= n < hi * hi throughout; 46341 * 46341 exceeds every 32-bit n
ISqrt(n) == ISqrtIn(n, 0, IF n < 46340 THEN n + 1 ELSE 46341)

IsSquare(n) == ISqrt(n) * ISqrt(n) = n

\* np.sqrt of a non-negative rational: exact when the root is rational
RSqrt(a) ==
    IF IsSquare(a[1]) /\ IsSquare(a[2])
    THEN Q(ISqrt(a[1]), ISqrt(a[2]))
    ELSE Q(ISqrt((a[1] * SqrtDen * SqrtDen) \div a[2]), SqrtDen)

\* ----------------------------------------------------------------- tensors

\* numpy broadcasting of two 1-d shapes: equal lengths, or one of them 1
Compat(a, b) == Len(a) = Len(b) \/ Len(a) = 1 \/ Len(b) = 1

BLen(a, b) == IF Len(a) >= Len(b) THEN Len(a) ELSE Len(b)

At(a, i) == IF Len(a) = 1 THEN a[1] ELSE a[i]

TAdd(a, b) == [i \in 1..BLen(a, b) |-> RAdd(At(a, i), At(b, i))]
TSub(a, b) == [i \in 1..BLen(a, b) |-> RSub(At(a, i), At(b, i))]
TDiv(a, b) == [i \in 1..BLen(a, b) |-> RDiv(At(a, i), At(b, i))]
TScale(q, a) == [i \in 1..Len(a) |-> RMul(q, a[i])]
TDivBy(a, q) == [i \in 1..Len(a) |-> RDiv(a[i], q)]
TPlus(a, q) == [i \in 1..Len(a) |-> RAdd(a[i], q)]
TSquare(a) == [i \in 1..Len(a) |-> RMul(a[i], a[i])]
TSqrt(a) == [i \in 1..Len(a) |-> RSqrt(a[i])]

\* a variant of zeros_like that fills with ones: the first-update state it
\* gives is not the zero state
ones_like(a) == [i \in 1..Len(a) |-> One]

\* np.zeros_like
zeros_like(a) == [i \in 1..Len(a) |-> Zero]

RECURSIVE SumSq(_, _)
SumSq(a, k) == IF k = 0 THEN Zero ELSE RAdd(RMul(a[k], a[k]), SumSq(a, k - 1))

\* numpy.linalg.norm of a 1-d array: its L2 norm
norm(a) == RSqrt(SumSq(a, Len(a)))

\* ------------------------------------------------------- python values

\* None, as the value of clip_norm (a pair that is no rational: den = 0)
None == <<0, 0>>

\* a dict is a function from its keys; {} is the function with no key
EmptyDict == <<>>

\* d[k] = v on a dict: inserts the key or overwrites its value
Put(d, k, v) == [x \in DOMAIN d \cup {k} |-> IF x = k THEN v ELSE d[x]]

\* the value a failed call returns: none
NoTensor == <<>>

\* ------------------------------------------------------ learning-rate scheduler

\* SchedulerInitializer(None, lr=lr)(): a constant-rate scheduler
ConstantScheduler(lr) == [kind |-> "ConstantScheduler", lr |-> lr]

\* str(scheduler): the scheduler's textual form, kept as (class name, rate)
SchedulerStr(s) == <<s.kind, s.lr>>

\* SchedulerInitializer(spec, lr=None)(): the scheduler a textual form names
SchedulerInitializer(spec) == [kind |-> spec[1], lr |-> spec[2]]

\* self.lr_scheduler(self.cur_step, cur_loss)
lr_scheduler(s, cur_step) == s.lr

\* ------------------------------------------------------------ clipping

\* a variant of Clip that multiplies by clip_norm without dividing by the norm
ClipNoRescale(param_grad, clip_norm) ==
    LET g == IF clip_norm # None /\ RLt(clip_norm, norm(param_grad))
             THEN TScale(clip_norm, param_grad)
             ELSE param_grad
    IN  [local |-> g, caller |-> param_grad]

\* lines 150-152 (and 248-250, 341-343, 444-446):
\*     t = np.inf if clip_norm is None else clip_norm
\*     if norm(param_grad) > t:
\*         param_grad = param_grad * t / norm(param_grad)
\* local is the tensor the name param_grad is bound to afterwards, caller the
\* content of the tensor the caller passed (the product is a new array).
Clip(param_grad, clip_norm) ==
    LET g == IF clip_norm # None /\ RLt(clip_norm, norm(param_grad))
             THEN TDivBy(TScale(clip_norm, param_grad), norm(param_grad))
             ELSE param_grad
    IN  [local |-> g, caller |-> param_grad]

\* ------------------------------------------------------------ update results

\* an update that raised (a numpy ValueError: operands could not be broadcast)
\* with the cache as the statements before the raise left it
Raise(C, cl) ==
    [cache |-> C, raised |-> TRUE, ret |-> NoTensor,
     used |-> cl.local, callerGrad |-> cl.caller]

Return(C, cl, value) ==
    [cache |-> C, raised |-> FALSE, ret |-> value,
     used |-> cl.local, callerGrad |-> cl.caller]

\* ------------------------------------------------------------------- SGD

\* a variant of SGDVelocity that drops the momentum term
SGDVelocityNoMomentum(momentum, prev, lr, g) == TScale(lr, g)

\* line 154: update = momentum * C[param_name] + lr * param_grad
SGDVelocity(momentum, prev, lr, g) ==
    TAdd(TScale(momentum, prev), TScale(lr, g))

SGDUpdate(C, H, lr, param, param_grad, param_name) ==
    LET C0 == IF param_name \in DOMAIN C THEN C
              ELSE Put(C, param_name, zeros_like(param_grad))
        cl == Clip(param_grad, H["clip_norm"])
        g == cl.local
    IN  IF ~Compat(C0[param_name], g) THEN Raise(C0, cl)
        ELSE LET update == SGDVelocity(H["momentum"], C0[param_name], lr, g)
                 C1 == Put(C0, param_name, update)
             IN  IF ~Compat(param, update) THEN Raise(C1, cl)
                 ELSE Return(C1, cl, TSub(param, update))

\* --------------------------------------------------------------- AdaGrad

\* a variant of AdaGradSum that forgets the earlier squares
AdaGradSumReplace(prev, g) == TSquare(g)

\* line 252: C[param_name] += param_grad ** 2
AdaGradSum(prev, g) == TAdd(prev, TSquare(g))

\* C[param_name] += param_grad ** 2 is in place: the sum must have the shape
\* of C[param_name], so the gradient has that length or length 1
AdaGradUpdate(C, H, lr, param, param_grad, param_name) ==
    LET C0 == IF param_name \in DOMAIN C THEN C
              ELSE Put(C, param_name, zeros_like(param_grad))
        cl == Clip(param_grad, H["clip_norm"])
        g == cl.local
    IN  IF ~(Len(g) = Len(C0[param_name]) \/ Len(g) = 1) THEN Raise(C0, cl)
        ELSE LET sum_sq == AdaGradSum(C0[param_name], g)
                 C1 == Put(C0, param_name, sum_sq)
                 update == TDiv(TScale(lr, g), TPlus(TSqrt(sum_sq), H["eps"]))
             IN  IF ~Compat(param, update) THEN Raise(C1, cl)
                 ELSE Return(C1, cl, TSub(param, update))

\* --------------------------------------------------------------- RMSProp

\* a variant of RMSPropAverage whose weights do not sum to one
RMSPropAverageNoComplement(decay, prev, g) ==
    TAdd(TScale(decay, prev), TSquare(g))

\* line 345: decay * C[param_name] + (1 - decay) * param_grad ** 2
RMSPropAverage(decay, prev, g) ==
    TAdd(TScale(decay, prev), TScale(RSub(One, decay), TSquare(g)))

RMSPropUpdate(C, H, lr, param, param_grad, param_name) ==
    LET C0 == IF param_name \in DOMAIN C THEN C
              ELSE Put(C, param_name, zeros_like(param_grad))
        cl == Clip(param_grad, H["clip_norm"])
        g == cl.local
    IN  IF ~Compat(C0[param_name], g) THEN Raise(C0, cl)
        ELSE LET avg_sq == RMSPropAverage(H["decay"], C0[param_name], g)
                 C1 == Put(C0, param_name, avg_sq)
                 update == TDiv(TScale(lr, g), TPlus(TSqrt(avg_sq), H["eps"]))
             IN  IF ~Compat(param, update) THEN Raise(C1, cl)
                 ELSE Return(C1, cl, TSub(param, update))

\* ------------------------------------------------------------------ Adam

\* a variant of AdamNewEntry whose counter does not start at zero
AdamNewEntryStale(param_grad) ==
    [t |-> 1, mean |-> zeros_like(param_grad), var |-> zeros_like(param_grad)]

\* the entry a first update creates (lines 437-441)
AdamNewEntry(param_grad) ==
    [t |-> 0, mean |-> zeros_like(param_grad), var |-> zeros_like(param_grad)]

\* a variant of AdamNextT that follows the optimizer's cur_step
AdamNextTFromStep(t, cur_step) == cur_step + 1

\* line 448: t = C[param_name]["t"] + 1, the entry's counter and never the
\* optimizer's cur_step
AdamNextT(t, cur_step) == t + 1

\* the counter is stored (line 453) before var and mean are computed (lines
\* 454-455), so a raise in either leaves the entry partly written
AdamUpdate(C, H, lr, cur_step, param, param_grad, param_name) ==
    LET C0 == IF param_name \in DOMAIN C THEN C
              ELSE Put(C, param_name, AdamNewEntry(param_grad))
        cl == Clip(param_grad, H["clip_norm"])
        g == cl.local
        d1 == H["decay1"]
        d2 == H["decay2"]
        t == AdamNextT(C0[param_name]["t"], cur_step)
        var == C0[param_name]["var"]
        mean == C0[param_name]["mean"]
        Ct == Put(C0, param_name, [C0[param_name] EXCEPT !["t"] = t])
    IN  IF ~Compat(var, g) THEN Raise(Ct, cl)
        ELSE
        LET new_var == TAdd(TScale(d2, var), TScale(RSub(One, d2), TSquare(g)))
            Cv == Put(Ct, param_name, [Ct[param_name] EXCEPT !["var"] = new_var])
        IN  IF ~Compat(mean, g) THEN Raise(Cv, cl)
            ELSE
            LET new_mean == TAdd(TScale(d1, mean), TScale(RSub(One, d1), g))
                Cm == Put(Cv, param_name,
                          [Cv[param_name] EXCEPT !["mean"] = new_mean])
                v_hat == TDivBy(new_var, RSub(One, RPow(d2, t)))
                m_hat == TDivBy(new_mean, RSub(One, RPow(d1, t)))
            IN  IF ~Compat(m_hat, v_hat) THEN Raise(Cm, cl)
                ELSE
                LET update == TDiv(TScale(lr, m_hat),
                                   TPlus(TSqrt(v_hat), H["eps"]))
                IN  IF ~Compat(param, update) THEN Raise(Cm, cl)
                    ELSE Return(Cm, cl, TSub(param, update))

\* ------------------------------------------------------------ constructors

\* the hyperparameters dict each __init__ builds (lines 105-111, 201-207,
\* 294-301, 391-399)
SGDHyper(lr, momentum, clip_norm) ==
    [k \in {"id", "lr", "momentum", "clip_norm", "lr_scheduler"} |->
        CASE k = "id" -> "SGD"
          [] k = "lr" -> lr
          [] k = "momentum" -> momentum
          [] k = "clip_norm" -> clip_norm
          [] k = "lr_scheduler" -> SchedulerStr(ConstantScheduler(lr))]

AdaGradHyper(lr, eps, clip_norm) ==
    [k \in {"id", "lr", "eps", "clip_norm", "lr_scheduler"} |->
        CASE k = "id" -> "AdaGrad"
          [] k = "lr" -> lr
          [] k = "eps" -> eps
          [] k = "clip_norm" -> clip_norm
          [] k = "lr_scheduler" -> SchedulerStr(ConstantScheduler(lr))]

RMSPropHyper(lr, decay, eps, clip_norm) ==
    [k \in {"id", "lr", "eps", "decay", "clip_norm", "lr_scheduler"} |->
        CASE k = "id" -> "RMSProp"
          [] k = "lr" -> lr
          [] k = "eps" -> eps
          [] k = "decay" -> decay
          [] k = "clip_norm" -> clip_norm
          [] k = "lr_scheduler" -> SchedulerStr(ConstantScheduler(lr))]

AdamHyper(lr, decay1, decay2, eps, clip_norm) ==
    [k \in {"id", "lr", "eps", "decay1", "decay2", "clip_norm", "lr_scheduler"} |->
        CASE k = "id" -> "Adam"
          [] k = "lr" -> lr
          [] k = "eps" -> eps
          [] k = "decay1" -> decay1
          [] k = "decay2" -> decay2
          [] k = "clip_norm" -> clip_norm
          [] k = "lr_scheduler" -> SchedulerStr(ConstantScheduler(lr))]

\* the constructor arguments the runs start from
ClipNorms == {None, Q(5, 2)}

InitialHyper ==
    {SGDHyper(Q(1, 10), m, c) : m \in {Zero, Q(9, 10)}, c \in ClipNorms}
    \cup {AdaGradHyper(Q(1, 10), Q(1, 100), c) : c \in ClipNorms}
    \cup {RMSPropHyper(Q(1, 10), Q(9, 10), Q(1, 100), c) : c \in ClipNorms}
    \cup {RMSPropHyper(Q(1, 10), Zero, Q(1, 100), Q(5, 2)),
          RMSPropHyper(Q(1, 10), One, Q(1, 100), None)}
    \cup {AdamHyper(Q(1, 10), Q(9, 10), Q(3, 4), Q(1, 100), c) : c \in ClipNorms}

\* the constructor arguments of the runs that take copies
InitialHyperCopy ==
    {SGDHyper(Q(1, 10), Q(9, 10), None),
     AdaGradHyper(Q(1, 10), Q(1, 100), Q(5, 2)),
     RMSPropHyper(Q(1, 10), Q(9, 10), Q(1, 100), None),
     AdamHyper(Q(1, 10), Q(9, 10), Q(3, 4), Q(1, 100), Q(5, 2))}

\* update, dispatched on the class of the instance
update(C, H, lr, cur_step, param, param_grad, param_name) ==
    CASE H["id"] = "SGD" -> SGDUpdate(C, H, lr, param, param_grad, param_name)
      [] H["id"] = "AdaGrad" ->
            AdaGradUpdate(C, H, lr, param, param_grad, param_name)
      [] H["id"] = "RMSProp" ->
            RMSPropUpdate(C, H, lr, param, param_grad, param_name)
      [] H["id"] = "Adam" ->
            AdamUpdate(C, H, lr, cur_step, param, param_grad, param_name)

\* ------------------------------------------------------------------ state

Insts == 1..(MaxCopies + 1)
Workers == {1, 2}
Addrs == 1..(2 * (MaxCopies + 1) + 2)
Names == {"w", "b"}

\* the heap objects a new instance number i gets for its two dicts
CacheAddr(i) == 2 * i - 1
HyperAddr(i) == 2 * i

\* the heap object a dict that worker w builds for itself would get
WorkerAddr(w) == 2 * (MaxCopies + 1) + w

NoInst ==
    [alive |-> FALSE, cache |-> 0, hyperparameters |-> 0, cur_step |-> 0,
     lr_scheduler |-> ConstantScheduler(Zero)]

\* what the caller holds before its first update call
NoCall ==
    [inst |-> 0, name |-> "", param |-> NoTensor, grad |-> NoTensor,
     raised |-> FALSE, ret |-> NoTensor, used |-> NoTensor,
     callerGrad |-> NoTensor]

VARIABLES
    insts,       \* instance number -> the optimizer object's fields
    heap,        \* address -> dict (the cache and hyperparameters objects)
    out,         \* the last update call: its receiver and arguments,
                 \* whether it raised, the value it returned, the gradient
                 \* its equations used and the caller's gradient tensor
                 \* after the call
    nupd,        \* history: instance, name -> updates that returned
    overridden,  \* history: instance, name -> times set_params replaced
                 \* cache[name]
    maxsq,       \* history: instance, name -> elementwise max of the squares
                 \* of the gradients passed to update (NoTensor: none yet)
    calls,       \* calls the run may still make, by kind (bounds the run)
    threads      \* the update calls two worker threads are running on
                 \* instance 1: each worker's position and local variables,
                 \* and the history of the round

vars == <<insts, heap, out, nupd, overridden, maxsq, calls, threads>>

\* a worker that runs no call
NoWorker ==
    [pc |-> "idle", name |-> "", param |-> NoTensor, grad |-> NoTensor,
     C |-> 0, H |-> 0, hp |-> EmptyDict, lr |-> Zero, g |-> NoTensor,
     tmp |-> NoTensor, ret |-> NoTensor]

\* no call running, and rounds more pairs of calls to come; cache0 is the
\* cache's content when the running pair began, mixed whether a worker has
\* taken a step while the other was between its first and its last
NoThreads(rounds) ==
    [w |-> [w \in Workers |-> NoWorker], cache0 |-> EmptyDict,
     mixed |-> FALSE, rounds |-> rounds]

Cache(i) == heap[insts[i].cache]
Hyper(i) == heap[insts[i].hyperparameters]
Alive(i) == insts[i].alive

\* OptimizerBase.__init__ (lines 40-43) then the subclass __init__, for
\* instance 1, built with the hyperparameters H
Constructed(H) ==
    /\ insts = [i \in Insts |->
                  IF i = 1
                  THEN [alive |-> TRUE, cache |-> CacheAddr(1),
                        hyperparameters |-> HyperAddr(1), cur_step |-> 0,
                        lr_scheduler |-> ConstantScheduler(H["lr"])]
                  ELSE NoInst]
    /\ heap = [a \in Addrs |-> IF a = HyperAddr(1) THEN H ELSE EmptyDict]
    /\ out = NoCall
    /\ nupd = [i \in Insts |-> [n \in Names |-> 0]]
    /\ overridden = [i \in Insts |-> [n \in Names |-> 0]]
    /\ maxsq = [i \in Insts |-> [n \in Names |-> NoTensor]]

Init ==
    /\ \E H \in InitialHyper : Constructed(H)
    /\ calls = [update |-> MaxUpdates, set_params |-> MaxSetParams, copy |-> 0]
    /\ threads = NoThreads(0)

InitCopy ==
    /\ \E H \in InitialHyperCopy : Constructed(H)
    /\ calls = [update |-> MaxCopyUpdates, set_params |-> MaxSetParams,
                copy |-> MaxCopies]
    /\ threads = NoThreads(0)

InitAnyShape ==
    /\ \E H \in InitialHyper : Constructed(H)
    /\ calls = [update |-> MaxCopyUpdates, set_params |-> 0, copy |-> 0]
    /\ threads = NoThreads(0)

\* ------------------------------------------------------------- set_params

\* a variant of SetExisting that also inserts the keys d does not hold
SetExistingOrInsert(d, given) ==
    [k \in DOMAIN d \cup DOMAIN given |->
        IF k \in DOMAIN given THEN given[k] ELSE d[k]]

\* lines 60-63: for k, v in hparam_dict.items():
\*                  if k in self.hyperparameters: self.hyperparameters[k] = v
\* (None for either argument skips its loop, as the empty dict does)
SetExisting(d, given) ==
    [k \in DOMAIN d |-> IF k \in DOMAIN given THEN given[k] ELSE d[k]]

\* lines 64-65: a replaced "lr_scheduler" is resolved again by the factory
SetScheduler(sched, H, hparam_dict) ==
    IF "lr_scheduler" \in DOMAIN hparam_dict /\ "lr_scheduler" \in DOMAIN H
    THEN SchedulerInitializer(hparam_dict["lr_scheduler"])
    ELSE sched

\* -------------------------------------------------------------------- copy

\* a variant of deepcopy, copy.copy(self): a new object whose fields name the
\* same dicts
ShallowCopy(self, h, j) == [obj |-> self, heap |-> h]

\* deepcopy(self) as instance number j: the cache and the hyperparameters are
\* copied into new dicts; the tensors inside are values here, copied with them
deepcopy(self, h, j) ==
    [obj |-> [self EXCEPT !.cache = CacheAddr(j),
                          !.hyperparameters = HyperAddr(j)],
     heap |-> [h EXCEPT ![CacheAddr(j)] = h[self.cache],
                        ![HyperAddr(j)] = h[self.hyperparameters]]]

\* ----------------------------------------------------------------- inputs

\* the caller's contract: a name stands for one parameter, of one shape, and
\* its gradient has that shape
ParamsOf(n) == IF n = "w" THEN {<<One>>, <<Q(4, 5)>>} ELSE {<<One, Q(-1, 1)>>}
GradsOf(n) ==
    IF n = "w" THEN {<<Zero>>, <<Q(2, 1)>>, <<Q(-3, 1)>>}
    ELSE {<<Zero, Zero>>, <<Q(-3, 1), Q(4, 1)>>}

\* tensors of any shape, for the calls that break the contract
AnyParams == {<<One>>, <<One, Q(-1, 1)>>, <<One, One, One>>}
AnyGrads == {<<Q(2, 1)>>, <<Q(3, 1), Q(4, 1)>>, <<Q(2, 1), One, Q(2, 1)>>}

HparamDicts ==
    {"lr" :> Q(1, 2),
     "bogus" :> One,
     ("lr" :> Q(1, 2)) @@ ("bogus" :> One),
     "lr_scheduler" :> SchedulerStr(ConstantScheduler(Q(1, 2)))}

\* a state for one name, as set_params' cache_dict may give it
GivenEntry(H) ==
    IF H["id"] = "Adam" THEN [t |-> 0, mean |-> <<One>>, var |-> <<One>>]
    ELSE <<One>>

CacheDicts(H) == {EmptyDict, "w" :> GivenEntry(H), "zz" :> GivenEntry(H)}

\* ----------------------------------------------------------------- history

TMax(a, b) == [k \in 1..BLen(a, b) |-> RMax(At(a, k), At(b, k))]

SeenMax(prev, g) ==
    IF prev = NoTensor \/ ~Compat(prev, g) THEN TSquare(g)
    ELSE TMax(prev, TSquare(g))

\* ---------------------------------------------------------------- actions

\* opt.update(param, param_grad, param_name) on instance i
Update(i, n, p, g) ==
    /\ Alive(i)
    /\ calls.update > 0
    /\ LET self == insts[i]
           lr == lr_scheduler(self.lr_scheduler, self.cur_step)
           r == update(Cache(i), Hyper(i), lr, self.cur_step, p, g, n)
       IN  /\ heap' = [heap EXCEPT ![self.cache] = r.cache]
           /\ out' = [inst |-> i, name |-> n, param |-> p, grad |-> g,
                       raised |-> r.raised, ret |-> r.ret, used |-> r.used,
                       callerGrad |-> r.callerGrad]
           /\ nupd' = IF r.raised THEN nupd
                      ELSE [nupd EXCEPT ![i][n] = @ + 1]
    /\ maxsq' = [maxsq EXCEPT ![i][n] = SeenMax(@, g)]
    /\ calls' = [calls EXCEPT !.update = @ - 1]
    /\ UNCHANGED <<insts, overridden, threads>>

\* opt.step() (line 49)
Step(i) ==
    /\ Alive(i)
    /\ insts[i].cur_step < MaxStep
    /\ insts' = [insts EXCEPT ![i].cur_step = @ + 1]
    /\ UNCHANGED <<heap, out, nupd, overridden, maxsq, calls, threads>>

\* opt.reset_step() (line 52)
ResetStep(i) ==
    /\ Alive(i)
    /\ insts' = [insts EXCEPT ![i].cur_step = 0]
    /\ UNCHANGED <<heap, out, nupd, overridden, maxsq, calls, threads>>

\* opt.set_params(hparam_dict, cache_dict) (lines 57-70)
SetParams(i, hd, cd) ==
    /\ Alive(i)
    /\ calls.set_params > 0
    /\ LET self == insts[i]
       IN  /\ heap' = [a \in Addrs |->
                        IF a = self.cache THEN SetExisting(heap[a], cd)
                        ELSE IF a = self.hyperparameters
                        THEN SetExisting(heap[a], hd)
                        ELSE heap[a]]
           /\ insts' = [insts EXCEPT ![i].lr_scheduler =
                                       SetScheduler(@, Hyper(i), hd)]
    /\ overridden' = [overridden EXCEPT ![i] =
                        [n \in Names |->
                            IF n \in DOMAIN cd /\ n \in DOMAIN Cache(i)
                            THEN @[n] + 1 ELSE @[n]]]
    /\ calls' = [calls EXCEPT !.set_params = @ - 1]
    /\ UNCHANGED <<out, nupd, maxsq, threads>>

\* a = opt.copy() (line 55): the copy becomes the next instance
Copy(i) ==
    /\ Alive(i)
    /\ calls.copy > 0
    /\ LET j == Cardinality({k \in Insts : Alive(k)}) + 1
           c == deepcopy(insts[i], heap, j)
       IN  /\ insts' = [insts EXCEPT ![j] = c.obj]
           /\ heap' = c.heap
           /\ nupd' = [nupd EXCEPT ![j] = nupd[i]]
           /\ overridden' = [overridden EXCEPT ![j] = overridden[i]]
           /\ maxsq' = [maxsq EXCEPT ![j] = maxsq[i]]
    /\ calls' = [calls EXCEPT !.copy = @ - 1]
    /\ UNCHANGED <<out, threads>>

\* the calls of a training loop that keeps the caller's contract, on one
\* optimizer
Next ==
    \/ \E i \in Insts : \E n \in Names :
          \E p \in ParamsOf(n) : \E g \in GradsOf(n) : Update(i, n, p, g)
    \/ \E i \in Insts : Step(i)
    \/ \E i \in Insts : ResetStep(i)
    \/ \E i \in {j \in Insts : Alive(j)} : \E hd \in HparamDicts :
          \E cd \in CacheDicts(Hyper(i)) : SetParams(i, hd, cd)

Spec == Init /\ [][Next]_vars

\* the same calls on an optimizer and on the copies taken of it
NextCopy ==
    \/ Next
    \/ \E i \in Insts : Copy(i)

SpecCopy == InitCopy /\ [][NextCopy]_vars

\* the calls of a caller that passes tensors of any shape under any name
NextAnyShape ==
    \/ \E i \in Insts : \E n \in Names :
          \E p \in AnyParams : \E g \in AnyGrads : Update(i, n, p, g)
    \/ \E i \in Insts : Step(i)
    \/ \E i \in Insts : ResetStep(i)

SpecAnyShape == InitAnyShape /\ [][NextAnyShape]_vars

\* ------------------------------------------------- two concurrent updates

\* a variant of BindCache in which C is a dict of the worker's own, filled
\* with the cache's content at that moment
BindCacheSnapshot(self, h, w) ==
    [C |-> WorkerAddr(w), heap |-> [h EXCEPT ![WorkerAddr(w)] = h[self.cache]]]

\* C = self.cache (lines 141, 239, 332, 430): the local name C refers to the
\* dict the attribute refers to; no dict is built
BindCache(self, h, w) == [C |-> self.cache, heap |-> h]

InitParallel ==
    /\ \E H \in InitialHyperCopy : Constructed(H)
    /\ calls = [update |-> 0, set_params |-> 0, copy |-> 0]
    /\ threads = NoThreads(MaxRounds)

Local(w) == threads.w[w]
Other(w) == CHOOSE v \in Workers : v # w
InFlight(w) == Local(w).pc \notin {"idle", "bind", "done"}

\* worker w moves to the locals l; a step taken while the other worker is
\* between its first and its last statement makes the round a mixed one
Moved(w, l) ==
    [threads EXCEPT !.w[w] = l, !.mixed = @ \/ InFlight(Other(w))]

KindOf(l) == l.hp["id"]

\* two worker threads call update on instance 1, each with a name of its own
StartRound(n1, p1, g1, n2, p2, g2) ==
    /\ threads.rounds > 0
    /\ \A w \in Workers : Local(w).pc = "idle"
    /\ n1 # n2
    /\ threads' =
         [w |-> [w \in Workers |->
                   [NoWorker EXCEPT !.pc = "bind",
                                    !.name = IF w = 1 THEN n1 ELSE n2,
                                    !.param = IF w = 1 THEN p1 ELSE p2,
                                    !.grad = IF w = 1 THEN g1 ELSE g2]],
          cache0 |-> Cache(1), mixed |-> FALSE, rounds |-> threads.rounds - 1]
    /\ UNCHANGED <<insts, heap, out, nupd, overridden, maxsq, calls>>

\* C = self.cache; H = self.hyperparameters (lines 141-142)
Bind(w) ==
    /\ Local(w).pc = "bind"
    /\ LET b == BindCache(insts[1], heap, w)
       IN  /\ heap' = b.heap
           /\ threads' = Moved(w, [Local(w) EXCEPT
                                      !.pc = "sched", !.C = b.C,
                                      !.H = insts[1].hyperparameters])
    /\ UNCHANGED <<insts, out, nupd, overridden, maxsq, calls>>

\* the reads of H's entries and lr = self.lr_scheduler(self.cur_step,
\* cur_loss) (lines 143-144)
Sched(w) ==
    /\ Local(w).pc = "sched"
    /\ threads' = Moved(w, [Local(w) EXCEPT
                               !.pc = "lookup", !.hp = heap[Local(w).H],
                               !.lr = lr_scheduler(insts[1].lr_scheduler,
                                                   insts[1].cur_step)])
    /\ UNCHANGED <<insts, heap, out, nupd, overridden, maxsq, calls>>

\* if param_name not in C (line 146)
Lookup(w) ==
    /\ Local(w).pc = "lookup"
    /\ threads' = Moved(w, [Local(w) EXCEPT
                               !.pc = IF Local(w).name \in DOMAIN heap[Local(w).C]
                                      THEN "compute" ELSE "insert"])
    /\ UNCHANGED <<insts, heap, out, nupd, overridden, maxsq, calls>>

\* C[param_name] = np.zeros_like(param_grad) (line 147), Adam's three-field
\* entry (lines 437-441)
Insert(w) ==
    /\ Local(w).pc = "insert"
    /\ LET l == Local(w)
           entry == IF KindOf(l) = "Adam" THEN AdamNewEntry(l.grad)
                    ELSE zeros_like(l.grad)
       IN  /\ heap' = [heap EXCEPT ![l.C] = Put(@, l.name, entry)]
           /\ threads' = Moved(w, [l EXCEPT !.pc = "compute"])
    /\ UNCHANGED <<insts, out, nupd, overridden, maxsq, calls>>

\* the clipping (lines 150-152) and the read of C[param_name] in the right
\* hand side of the state equation (lines 154, 252, 345, 448-450)
Compute(w) ==
    /\ Local(w).pc = "compute"
    /\ LET l == Local(w)
           g == Clip(l.grad, l.hp["clip_norm"]).local
           prev == heap[l.C][l.name]
           tmp == CASE KindOf(l) = "SGD" ->
                         SGDVelocity(l.hp["momentum"], prev, l.lr, g)
                    [] KindOf(l) = "AdaGrad" -> AdaGradSum(prev, g)
                    [] KindOf(l) = "RMSProp" ->
                         RMSPropAverage(l.hp["decay"], prev, g)
                    [] KindOf(l) = "Adam" ->
                         [t |-> AdamNextT(prev["t"], insts[1].cur_step),
                          var |-> prev["var"], mean |-> prev["mean"]]
       IN  threads' = Moved(w, [l EXCEPT !.pc = "store", !.g = g, !.tmp = tmp])
    /\ UNCHANGED <<insts, heap, out, nupd, overridden, maxsq, calls>>

\* the store of the new state: self.cache[param_name] = update and the
\* return (lines 155-156), C[param_name] = ... (lines 252, 345),
\* C[param_name]["t"] = t (line 453)
Store(w) ==
    /\ Local(w).pc = "store"
    /\ LET l == Local(w)
       IN  CASE KindOf(l) = "SGD" ->
                  /\ heap' = [heap EXCEPT ![insts[1].cache] =
                                             Put(@, l.name, l.tmp)]
                  /\ threads' = Moved(w, [l EXCEPT !.pc = "done",
                                                  !.ret = TSub(l.param, l.tmp)])
             [] KindOf(l) \in {"AdaGrad", "RMSProp"} ->
                  /\ heap' = [heap EXCEPT ![l.C] = Put(@, l.name, l.tmp)]
                  /\ threads' = Moved(w, [l EXCEPT !.pc = "reread"])
             [] KindOf(l) = "Adam" ->
                  /\ heap' = [heap EXCEPT ![l.C] =
                                Put(@, l.name,
                                    [@[l.name] EXCEPT !["t"] = l.tmp.t])]
                  /\ threads' = Moved(w, [l EXCEPT !.pc = "store_var"])
    /\ UNCHANGED <<insts, out, nupd, overridden, maxsq, calls>>

\* C[param_name]["var"] = d2 * var + (1 - d2) * param_grad ** 2 (line 454)
StoreVar(w) ==
    /\ Local(w).pc = "store_var"
    /\ LET l == Local(w)
           d2 == l.hp["decay2"]
           new_var == TAdd(TScale(d2, l.tmp.var),
                           TScale(RSub(One, d2), TSquare(l.g)))
       IN  /\ heap' = [heap EXCEPT ![l.C] =
                         Put(@, l.name, [@[l.name] EXCEPT !["var"] = new_var])]
           /\ threads' = Moved(w, [l EXCEPT !.pc = "store_mean"])
    /\ UNCHANGED <<insts, out, nupd, overridden, maxsq, calls>>

\* C[param_name]["mean"] = d1 * mean + (1 - d1) * param_grad (line 455)
StoreMean(w) ==
    /\ Local(w).pc = "store_mean"
    /\ LET l == Local(w)
           d1 == l.hp["decay1"]
           new_mean == TAdd(TScale(d1, l.tmp.mean), TScale(RSub(One, d1), l.g))
       IN  /\ heap' = [heap EXCEPT ![l.C] =
                         Put(@, l.name, [@[l.name] EXCEPT !["mean"] = new_mean])]
           /\ threads' = Moved(w, [l EXCEPT !.pc = "writeback"])
    /\ UNCHANGED <<insts, out, nupd, overridden, maxsq, calls>>

\* the read of C[param_name] after the store: update = lr * param_grad /
\* (np.sqrt(C[param_name]) + eps) (lines 253, 346) before the write-back,
\* Adam's v_hat, m_hat, update and return (lines 459-462) after it
Reread(w) ==
    /\ Local(w).pc = "reread"
    /\ LET l == Local(w)
           cur == heap[l.C][l.name]
       IN  IF KindOf(l) = "Adam"
           THEN LET t == l.tmp.t
                    v_hat == TDivBy(cur["var"],
                                    RSub(One, RPow(l.hp["decay2"], t)))
                    m_hat == TDivBy(cur["mean"],
                                    RSub(One, RPow(l.hp["decay1"], t)))
                    update_ == TDiv(TScale(l.lr, m_hat),
                                    TPlus(TSqrt(v_hat), l.hp["eps"]))
                IN  threads' = Moved(w, [l EXCEPT !.pc = "done",
                                            !.ret = TSub(l.param, update_)])
           ELSE threads' =
                  Moved(w, [l EXCEPT
                              !.pc = "writeback",
                              !.tmp = TDiv(TScale(l.lr, l.g),
                                           TPlus(TSqrt(cur), l.hp["eps"]))])
    /\ UNCHANGED <<insts, heap, out, nupd, overridden, maxsq, calls>>

\* self.cache = C (lines 254, 347, 456), then AdaGrad's and RMSProp's
\* return param - update (lines 255, 348)
WriteBack(w) ==
    /\ Local(w).pc = "writeback"
    /\ LET l == Local(w)
       IN  /\ insts' = [insts EXCEPT ![1].cache = l.C]
           /\ threads' = IF KindOf(l) = "Adam"
                         THEN Moved(w, [l EXCEPT !.pc = "reread"])
                         ELSE Moved(w, [l EXCEPT !.pc = "done",
                                           !.ret = TSub(l.param, l.tmp)])
    /\ UNCHANGED <<heap, out, nupd, overridden, maxsq, calls>>

\* both calls have returned and the caller has joined its workers
Join ==
    /\ \A w \in Workers : Local(w).pc = "done"
    /\ threads' = NoThreads(threads.rounds)
    /\ UNCHANGED <<insts, heap, out, nupd, overridden, maxsq, calls>>

\* the statements of two update calls on distinct names, in any interleaving
NextParallel ==
    \/ \E n1 \in Names : \E p1 \in ParamsOf(n1) : \E g1 \in GradsOf(n1) :
          \E n2 \in Names : \E p2 \in ParamsOf(n2) : \E g2 \in GradsOf(n2) :
             StartRound(n1, p1, g1, n2, p2, g2)
    \/ \E w \in Workers : Bind(w)
    \/ \E w \in Workers : Sched(w)
    \/ \E w \in Workers : Lookup(w)
    \/ \E w \in Workers : Insert(w)
    \/ \E w \in Workers : Compute(w)
    \/ \E w \in Workers : Store(w)
    \/ \E w \in Workers : StoreVar(w)
    \/ \E w \in Workers : StoreMean(w)
    \/ \E w \in Workers : Reread(w)
    \/ \E w \in Workers : WriteBack(w)
    \/ Join

SpecParallel == InitParallel /\ [][NextParallel]_vars

\* ----------------------------------------------------------------- claims

IsKind(i, id) == Alive(i) /\ Hyper(i)["id"] = id

\* this step is an update call (on out'.inst, under the name out'.name)
UpdateStep == calls'.update = calls.update - 1

\* C1 as stated: on an Adam instance, for every name n, cache[n].t is the
\* number of updates performed on n (no entry when there was none), after
\* any sequence of operations.
C1_CounterAfterAnyOperations ==
    \A i \in Insts : IsKind(i, "Adam") =>
        \A n \in Names :
            IF n \in DOMAIN Cache(i) THEN Cache(i)[n]["t"] = nupd[i][n]
            ELSE nupd[i][n] = 0

\* C1, amended: on an Adam instance, for every name n that no set_params call
\* has replaced the cache entry of, cache[n].t is the number of updates
\* performed on n: 1 after the first, one more after each later one, whatever
\* the updates on other names and the step() / reset_step() calls in between.
C1_AdamCounter ==
    \A i \in Insts : IsKind(i, "Adam") =>
        \A n \in Names : overridden[i][n] = 0 =>
            IF n \in DOMAIN Cache(i) THEN Cache(i)[n]["t"] = nupd[i][n]
            ELSE nupd[i][n] = 0

\* two updates on "w", one on "b" and a step() in between
C1_Witness ==
    /\ IsKind(1, "Adam")
    /\ DOMAIN Cache(1) = {"w", "b"}
    /\ Cache(1)["w"]["t"] = 2
    /\ Cache(1)["b"]["t"] = 1
    /\ insts[1].cur_step = 1
    /\ overridden[1]["w"] = 0

\* C2: set_params(hparam_dict, cache_dict) overwrites the keys that exist and
\* ignores the others: the key sets of hyperparameters and of the cache are
\* the same before and after, a key the arguments name takes the given value,
\* and every other key keeps its value.
C2_SetParamsUpdateOnly ==
    [][\A i \in {j \in Insts : Alive(j)} : \A hd \in HparamDicts :
          \A cd \in CacheDicts(Hyper(i)) :
             SetParams(i, hd, cd) =>
                /\ DOMAIN Hyper(i)' = DOMAIN Hyper(i)
                /\ DOMAIN Cache(i)' = DOMAIN Cache(i)
                /\ \A k \in DOMAIN Hyper(i) :
                      Hyper(i)'[k] = IF k \in DOMAIN hd THEN hd[k]
                                     ELSE Hyper(i)[k]
                /\ \A k \in DOMAIN Cache(i) :
                      Cache(i)'[k] = IF k \in DOMAIN cd THEN cd[k]
                                     ELSE Cache(i)[k]]_vars

\* set_params({"lr": 0.5, "bogus": 1}, {"w": ...}) after an update on "w"
\* and one on "b"
C2_Witness ==
    /\ Hyper(1)["lr"] = Q(1, 2)
    /\ "bogus" \notin DOMAIN Hyper(1)
    /\ overridden[1]["w"] = 1
    /\ "b" \in DOMAIN Cache(1)

\* a call other than copy() on instance a
CallOn(a) ==
    \/ UpdateStep /\ out'.inst = a
    \/ Step(a)
    \/ ResetStep(a)
    \/ \E hd \in HparamDicts : \E cd \in CacheDicts(Hyper(a)) :
          SetParams(a, hd, cd)

\* C3: copy() returns an independent instance. Right after a = opt.copy(),
\* a's cache, hyperparameters and cur_step equal opt's; and from then on an
\* update, step, reset_step or set_params call on either of the two leaves
\* the other's cache and hyperparameters as they were.
C3_CopyIndependent ==
    [][/\ \A i \in Insts : Copy(i) =>
             \E a \in Insts :
                /\ ~Alive(a) /\ Alive(a)'
                /\ Cache(a)' = Cache(i) /\ Cache(i)' = Cache(i)
                /\ Hyper(a)' = Hyper(i) /\ Hyper(i)' = Hyper(i)
                /\ insts'[a].cur_step = insts[i].cur_step
       /\ \A a \in {j \in Insts : Alive(j)} :
             CallOn(a) =>
                \A b \in {j \in Insts : Alive(j)} \ {a} :
                   /\ Cache(b)' = Cache(b)
                   /\ Hyper(b)' = Hyper(b)]_vars

\* an update on "w", the copy taken, then an update on "b" on the copy only
\* and a set_params({"lr": 0.5}) on the original only
C3_Witness ==
    /\ Alive(2)
    /\ DOMAIN Cache(1) = {"w"}
    /\ DOMAIN Cache(2) = {"w", "b"}
    /\ Hyper(1)["lr"] = Q(1, 2)
    /\ Hyper(2)["lr"] = Q(1, 10)

\* the all-zero state of a name, of the shape of the gradient g
ZeroState(H, g) ==
    IF H["id"] = "Adam"
    THEN [t |-> 0, mean |-> [k \in 1..Len(g) |-> Zero],
          var |-> [k \in 1..Len(g) |-> Zero]]
    ELSE [k \in 1..Len(g) |-> Zero]

\* C4: the cache starts empty and holds a name exactly when an update on that
\* name has been made; no call removes a name; the only call that adds the
\* name n is the first update on n, whose entry is what the update equations
\* give on the all-zero state; step() and reset_step() leave the cache
\* unchanged.
C4_LazyEntries ==
    /\ [](\A n \in Names : n \in DOMAIN Cache(1) <=> nupd[1][n] > 0)
    /\ [][/\ DOMAIN Cache(1) \subseteq DOMAIN Cache(1)'
          /\ DOMAIN Cache(1)' \subseteq Names
          /\ \A n \in DOMAIN Cache(1)' \ DOMAIN Cache(1) :
                /\ UpdateStep /\ out'.name = n
                /\ LET H == Hyper(1)
                       self == insts[1]
                       zeroed == Put(Cache(1), n, ZeroState(H, out'.grad))
                       r == update(zeroed, H,
                                   lr_scheduler(self.lr_scheduler, self.cur_step),
                                   self.cur_step, out'.param, out'.grad, n)
                   IN  Cache(1)' = r.cache
          /\ (Step(1) \/ ResetStep(1)) => Cache(1)' = Cache(1)]_vars

\* both names cached, the step counter driven to 1 and set_params called
C4_Witness ==
    /\ DOMAIN Cache(1) = {"w", "b"}
    /\ nupd[1]["w"] = 2
    /\ insts[1].cur_step = 1
    /\ calls.set_params = 0

\* a <= b in every element
TLe(a, b) == Len(a) = Len(b) /\ \A k \in 1..Len(a) : RLe(a[k], b[k])

\* C5 as stated: on an AdaGrad instance no operation lowers an element of
\* cache[n].
C5_NeverLowered ==
    [][IsKind(1, "AdaGrad") =>
          \A n \in DOMAIN Cache(1) :
             n \in DOMAIN Cache(1)' /\ TLe(Cache(1)[n], Cache(1)'[n])]_vars

\* C5, amended: on an AdaGrad instance every call except a set_params whose
\* cache_dict names n leaves each element of cache[n] at least as large as
\* it was, and an update on n makes each element larger in which the clipped
\* gradient is not zero.
C5_AdaGradMonotone ==
    [][IsKind(1, "AdaGrad") =>
          /\ \A n \in DOMAIN Cache(1) :
                overridden'[1][n] = overridden[1][n] =>
                   n \in DOMAIN Cache(1)' /\ TLe(Cache(1)[n], Cache(1)'[n])
          /\ UpdateStep =>
                LET n == out'.name
                    before == IF n \in DOMAIN Cache(1) THEN Cache(1)[n]
                              ELSE [k \in 1..Len(out'.grad) |-> Zero]
                IN  \A k \in 1..Len(out'.used) :
                       out'.used[k] # Zero =>
                          RLt(before[k], Cache(1)'[n][k])]_vars

\* two updates on "w" with the gradient 2: the sum is 4, then 8
C5_Witness ==
    /\ IsKind(1, "AdaGrad")
    /\ "w" \in DOMAIN Cache(1)
    /\ Cache(1)["w"] = <<Q(8, 1)>>
    /\ overridden[1]["w"] = 0

\* C6: on an RMSProp instance with decay in [0, 1], for every name n whose
\* cache entry came from updates alone, each element of cache[n] is at least
\* 0 and at most the largest square of that element over the gradients
\* passed to update for n.
C6_RMSPropBounded ==
    \A i \in Insts :
        (/\ IsKind(i, "RMSProp")
         /\ RLe(Zero, Hyper(i)["decay"]) /\ RLe(Hyper(i)["decay"], One)) =>
            \A n \in DOMAIN Cache(i) : overridden[i][n] = 0 =>
                /\ Len(Cache(i)[n]) = Len(maxsq[i][n])
                /\ \A k \in 1..Len(Cache(i)[n]) :
                      /\ RLe(Zero, Cache(i)[n][k])
                      /\ RLe(Cache(i)[n][k], maxsq[i][n][k])

\* three updates on "w" with decay 0.9: the average is above 0 and below the
\* largest square
C6_Witness ==
    /\ IsKind(1, "RMSProp")
    /\ Hyper(1)["decay"] = Q(9, 10)
    /\ nupd[1]["w"] = 3
    /\ overridden[1]["w"] = 0
    /\ RLt(Zero, Cache(1)["w"][1])
    /\ RLt(Cache(1)["w"][1], maxsq[1]["w"][1])

IsZero(a) == \A k \in 1..Len(a) : a[k] = Zero

\* C7: for each of the four optimizers, an update with an all-zero gradient on
\* a name never updated on that instance raises nothing, returns param and
\* leaves the new cache tensors all zero (Adam: mean = var = 0 and t = 1).
C7_ZeroGradient ==
    [][(/\ UpdateStep
        /\ out'.inst = 1
        /\ out'.name \notin DOMAIN Cache(1)
        /\ IsZero(out'.grad)) =>
           /\ ~out'.raised
           /\ out'.ret = out'.param
           /\ out'.name \in DOMAIN Cache(1)'
           /\ LET e == Cache(1)'[out'.name]
              IN  IF IsKind(1, "Adam")
                  THEN /\ e["t"] = 1
                       /\ Len(e["mean"]) = Len(out'.grad) /\ IsZero(e["mean"])
                       /\ Len(e["var"]) = Len(out'.grad) /\ IsZero(e["var"])
                  ELSE Len(e) = Len(out'.grad) /\ IsZero(e)]_vars

\* after an update on "w", the first update on "b" is made with the gradient
\* (0, 0) and returns its param
C7_Witness ==
    /\ out.name = "b"
    /\ out.grad = <<Zero, Zero>>
    /\ out.ret = <<One, Q(-1, 1)>>
    /\ nupd[1]["b"] = 1
    /\ nupd[1]["w"] = 1

\* a = k * b for some k > 0: a has the direction of b
SameDirection(a, b) ==
    /\ Len(a) = Len(b)
    /\ \A j, k \in 1..Len(a) : RMul(a[j], b[k]) = RMul(a[k], b[j])
    /\ \A k \in 1..Len(a) : RLe(Zero, RMul(a[k], b[k]))
    /\ IsZero(a) <=> IsZero(b)

\* C8: in every update, if the L2 norm of the gradient passed exceeds
\* clip_norm, the gradient the equations use is grad * clip_norm / norm(grad),
\* of norm clip_norm and of the direction of grad; if it does not, or
\* clip_norm is None, it is the gradient passed. The caller's tensor is left
\* as it was passed.
C8_Clipping ==
    [][(UpdateStep /\ out'.inst = 1) =>
          LET c == Hyper(1)["clip_norm"]
              g == out'.grad
          IN  /\ out'.callerGrad = g
              /\ IF c # None /\ RLt(c, norm(g))
                 THEN /\ norm(out'.used) = c
                      /\ SameDirection(out'.used, g)
                      /\ out'.used =
                            [k \in 1..Len(g) |-> RDiv(RMul(g[k], c), norm(g))]
                 ELSE out'.used = g]_vars

\* the gradient (-3, 4), of norm 5, clipped to the norm 5/2
C8_Witness ==
    /\ out.inst = 1
    /\ Hyper(1)["clip_norm"] = Q(5, 2)
    /\ out.grad = <<Q(-3, 1), Q(4, 1)>>
    /\ out.used = <<Q(-3, 2), Q(2, 1)>>
    /\ out.callerGrad = out.grad

\* C9: every SGD update on a name n sets cache[n] to
\* momentum * (the previous cache[n], 0 on first sight) + lr * g, with lr the
\* scheduler's value and g the clipped gradient, and returns param - cache[n].
\* With lr = 0.1, momentum = 0.9 and no clipping, update(1.0, 2.0, "w") stores
\* 0.2 and returns 0.8, and then update(0.8, 2.0, "w") stores 0.38 and returns
\* 0.42. With momentum = 0 every update returns param - lr * g.
C9_SGDEquation ==
    [][(UpdateStep /\ out'.inst = 1 /\ IsKind(1, "SGD")) =>
          LET n == out'.name
              H == Hyper(1)
              lr == insts[1].lr_scheduler.lr
              g == out'.used
              prev == IF n \in DOMAIN Cache(1) THEN Cache(1)[n]
                      ELSE [k \in 1..Len(g) |-> Zero]
              v == Cache(1)'[n]
          IN  /\ Len(v) = Len(g)
              /\ \A k \in 1..Len(g) :
                    /\ v[k] = RAdd(RMul(H["momentum"], prev[k]), RMul(lr, g[k]))
                    /\ out'.ret[k] = RSub(out'.param[k], v[k])
              /\ H["momentum"] = Zero =>
                    \A k \in 1..Len(g) :
                       out'.ret[k] = RSub(out'.param[k], RMul(lr, g[k]))
              /\ (/\ lr = Q(1, 10) /\ H["momentum"] = Q(9, 10)
                  /\ H["clip_norm"] = None /\ n = "w"
                  /\ out'.grad = <<Q(2, 1)>>) =>
                    /\ (n \notin DOMAIN Cache(1) /\ out'.param = <<One>>) =>
                          v = <<Q(1, 5)>> /\ out'.ret = <<Q(4, 5)>>
                    /\ (/\ n \in DOMAIN Cache(1) /\ prev = <<Q(1, 5)>>
                        /\ out'.param = <<Q(4, 5)>>) =>
                          v = <<Q(19, 50)>> /\ out'.ret = <<Q(21, 50)>>]_vars

\* the second call of the scenario: velocity 0.38, returned 0.42
C9_Witness ==
    /\ IsKind(1, "SGD")
    /\ Hyper(1)["momentum"] = Q(9, 10)
    /\ nupd[1]["w"] = 2
    /\ Cache(1)["w"] = <<Q(19, 50)>>
    /\ out.ret = <<Q(21, 50)>>

\* C10 as stated: an update whose param and param_grad differ in shape, or
\* whose name has a cached state tensor of another shape than the gradient,
\* raises, returns nothing and leaves the cache unchanged.
C10_ShapeMismatchRaises ==
    [][(/\ UpdateStep
        /\ out'.inst = 1
        /\ LET n == out'.name
               state == IF IsKind(1, "Adam") THEN Cache(1)[n]["mean"]
                        ELSE Cache(1)[n]
           IN  \/ Len(out'.param) # Len(out'.grad)
               \/ n \in DOMAIN Cache(1) /\ Len(state) # Len(out'.grad)) =>
           /\ out'.raised
           /\ out'.ret = NoTensor
           /\ Cache(1)' = Cache(1)]_vars

\* the two calls of the running pair, run one after the other on the cache
\* the pair began with: first the call of worker v, then the call of worker w
SeqFirst(v) ==
    update(threads.cache0, Hyper(1),
           lr_scheduler(insts[1].lr_scheduler, insts[1].cur_step),
           insts[1].cur_step, Local(v).param, Local(v).grad, Local(v).name)

SeqSecond(v, w) ==
    update(SeqFirst(v).cache, Hyper(1),
           lr_scheduler(insts[1].lr_scheduler, insts[1].cur_step),
           insts[1].cur_step, Local(w).param, Local(w).grad, Local(w).name)

BothDone == \A w \in Workers : Local(w).pc = "done"

\* worker w executes a statement of its update call
StatementOf(w) ==
    /\ Local(w).pc \notin {"idle", "done"}
    /\ Local(w)' # Local(w)

\* C11: update calls on different names are independent. A statement of an
\* update on name a leaves cur_step, the hyperparameters and every cache
\* entry of another name as they were; and when two workers have run update
\* concurrently on distinct names of one optimizer, whatever the interleaving
\* of their statements, the values returned and the final cache are those of
\* the two calls run one after the other, in either order, so that no entry
\* is lost or overwritten by the other worker.
C11_ParallelDistinctNames ==
    /\ [](BothDone =>
            /\ Cache(1) = SeqSecond(1, 2).cache
            /\ Cache(1) = SeqSecond(2, 1).cache
            /\ ~SeqSecond(1, 2).raised /\ ~SeqSecond(2, 1).raised
            /\ Local(1).ret = SeqFirst(1).ret
            /\ Local(1).ret = SeqSecond(2, 1).ret
            /\ Local(2).ret = SeqFirst(2).ret
            /\ Local(2).ret = SeqSecond(1, 2).ret)
    /\ [][\A w \in Workers : StatementOf(w) =>
            /\ insts'[1].cur_step = insts[1].cur_step
            /\ insts'[1].lr_scheduler = insts[1].lr_scheduler
            /\ Hyper(1)' = Hyper(1)
            /\ \A n \in (DOMAIN Cache(1) \cup DOMAIN Cache(1)') \ {Local(w).name} :
                  /\ n \in DOMAIN Cache(1) /\ n \in DOMAIN Cache(1)'
                  /\ Cache(1)'[n] = Cache(1)[n]]_vars

\* two Adam updates on two names the cache did not hold have both returned,
\* after statements of one ran between statements of the other, and both
\* entries are in the cache
C11_Witness ==
    /\ BothDone
    /\ threads.mixed
    /\ IsKind(1, "Adam")
    /\ threads.cache0 = EmptyDict
    /\ DOMAIN Cache(1) = {Local(1).name, Local(2).name}
    /\ Cache(1)[Local(1).name]["t"] = 1
    /\ Cache(1)[Local(2).name]["t"] = 1
    /\ Local(1).ret # Local(1).param

=============================================================================
